---- MODULE Spec2Model ----
(***************************************************************************)
(* Model of the Aegis JavaScript bridge (aegis/runtime/aegis-api.js): the  *)
(* call-correlation layer between front-end code and the Python backend.   *)
(*                                                                         *)
(* Strings that the code takes apart (action names, allow-list tokens) are *)
(* sequences of one-character strings, so that split('.') and includes()   *)
(* are computed as the code computes them.  Opaque values (payloads,       *)
(* callbacks) are plain strings.  Error messages and response data are     *)
(* sequences of string chunks.                                             *)
(***************************************************************************)
EXTENDS Integers, Sequences, FiniteSets, TLC

\* ------------------------------------------------------------------ bounds
\* Number of bridge calls made over a run.
MaxCalls == 2

\* Length of the generated action strings and tokens given to isAllowed.
MaxStrLen == 2
\* Number of tokens in the lists given to isAllowed.
MaxTokens == 2

\* Number of calls made to a debounced function over a run.
MaxDebounceCalls == 3
\* Largest wait given to Aegis.debounce and largest limit given to
\* Aegis.throttle, in ticks of the clock.
MaxWait == 2
\* Number of calls made to a throttled function over a run.
MaxThrottleCalls == 3
\* Largest length of the file manager's history at which a navigation that
\* may add an entry is still started.
MaxHistory == 3
\* Number of navigateTo calls of the file manager that may be waiting for
\* Aegis.exists at the same time.
MaxNavigating == 1

\* ------------------------------------------------------------ string data
Dot == "."
Star == <<"*">>
\* Characters of the generated strings.
GateAlphabet == {"a", Dot, "*"}

s_run == <<"r", "u", "n">>
s_run_async == <<"r", "u", "n", ".", "a", "s", "y", "n", "c">>
s_download == <<"d", "o", "w", "n", "l", "o", "a", "d">>
s_copy == <<"c", "o", "p", "y">>
s_copy_async == <<"c", "o", "p", "y", ".", "a", "s", "y", "n", "c">>
s_customAction ==
    <<"c", "u", "s", "t", "o", "m", "A", "c", "t", "i", "o", "n">>
s_toString == <<"t", "o", "S", "t", "r", "i", "n", "g">>
s_dialog == <<"d", "i", "a", "l", "o", "g">>
s_dialog_open == <<"d", "i", "a", "l", "o", "g", ".", "o", "p", "e", "n">>
s_dialog_save == <<"d", "i", "a", "l", "o", "g", ".", "s", "a", "v", "e">>
s_dialog_message ==
    <<"d", "i", "a", "l", "o", "g", ".", "m", "e", "s", "s", "a", "g", "e">>

\* Arguments of the calls made on the public object: Aegis.run (one of the
\* functions made by guardedInvoke), Aegis.runAsync, Aegis.download,
\* Aegis.copyAsync and Aegis.invoke.
GuardedArgs ==
    { <<s_run, "undefined">> }
ProgressArgs ==
    { <<s_run_async, "p1", "cbA">>, <<s_download, "undefined", "cbB">>,
      <<s_copy_async, "p1", "undefined">> }
InvokeArgs ==
    { <<s_run, "p1">> }
\* Names registered with Aegis.handle.
HandlerNames == {s_run}

\* JavaScript undefined, as an argument value.
Undefined == "undefined"
\* The default parameter value {} of invoke.
EmptyObject == "{}"
\* Functions a caller may pass as onProgress.
Functions == {"cbA", "cbB"}

\* Arguments of Aegis.expose: lists of tokens (order and repetition do not
\* matter to includes(), so a list is modelled by the set of its elements).
ExposeLists ==
    { {s_download, s_copy} }

ResponseData == {<<"d1">>}
ProgressData == {<<"d1">>, <<"d2">>}
ResponseErrors == {<<"e1">>}
NoValue == <<>>

BridgeError == <<"Aegis bridge not available">>
NotAllowedError(action) ==
    <<"API '">> \o action \o <<"' is not allowed by preload">>
HandlerResult == <<"handler result">>
\* What Object.prototype.toString returns when called on the handlers object.
PrototypeResult == <<"[object Object]">>
\* Property names every plain object inherits from Object.prototype, with a
\* function as value.
ObjectPrototypeKeys == {s_toString}

VARIABLES
    callbackId,          \* let callbackId
    pendingCallbacks,    \* Map id -> index of the call whose promise it settles
    progressCallbacks,   \* Map id -> onProgress function
    allowedAPIs,         \* window.__aegisAllowedAPIs
    bridge,              \* window.webkit.messageHandlers.aegis is present
    customHandlers,      \* Aegis._customHandlers
    posted,              \* messages handed to postMessage, in order
    calls,               \* one record per call made: its promise and its id
    invoked,             \* the progress callbacks the latest operation invoked
    gate,                \* an application of isAllowed: its argument and result
    wait,                \* debounce(func, wait): the wait argument
    timeout,             \* debounce: let timeout (0: undefined, else a timer id)
    timers,              \* the timers set by setTimeout that have not run
    funcCalls,           \* the arguments func was invoked with, in order
    idle,                \* ticks since the debounced function was last called,
                         \* or since the throttled function last ran func
    lastArgs,            \* arguments of the latest call of the debounced function
    limit,               \* throttle(func, limit): the limit argument
    inThrottle,          \* throttle: let inThrottle (undefined reads as FALSE)
    throttled,           \* the calls made to the throttled function, in order
    currentPath,         \* FileManager: this.currentPath
    history,             \* FileManager: this.history
    historyIndex,        \* FileManager: this.historyIndex
    navigating           \* FileManager: navigateTo calls waiting at their
                         \* first await, oldest first

\* The state of one function returned by Aegis.debounce.
debounceVars == <<wait, timeout, timers, funcCalls, idle, lastArgs>>
\* What one function returned by Aegis.throttle adds to it.
throttleVars == <<limit, inThrottle, throttled>>
\* The state of the file manager.
fmVars == <<currentPath, history, historyIndex, navigating>>

vars == <<callbackId, pendingCallbacks, progressCallbacks, allowedAPIs, bridge,
          customHandlers, posted, calls, invoked, gate, debounceVars,
          throttleVars, fmVars>>

\* The variables the bridge operations leave alone.
otherVars == <<gate, debounceVars, throttleVars, fmVars>>

\* ------------------------------------------------------------- Map helpers
MapHas(m, k) == k \in DOMAIN m
MapSet(m, k, v) == [x \in (DOMAIN m) \cup {k} |-> IF x = k THEN v ELSE m[x]]
MapDelete(m, k) == [x \in (DOMAIN m) \ {k} |-> m[x]]
EmptyMap == [x \in {} |-> 0]

\* ----------------------------------------------------------------- promise
\* resolve/reject of a promise: the first call settles it, later calls are
\* ignored.
\* A settle function that overwrites an outcome already set.
Settle_overwrite(cs, idx, state, value) ==
    [cs EXCEPT ![idx].state = state, ![idx].value = value]

Settle(cs, idx, state, value) ==
    IF cs[idx].state = "pending"
    THEN [cs EXCEPT ![idx].state = state, ![idx].value = value]
    ELSE cs

\* The promise a call returns, with what the call was given and the id it
\* allocated (0: none).
NewCall(entry, action, id, onProgress) ==
    [entry |-> entry, action |-> action, id |-> id, onProgress |-> onProgress,
     state |-> "pending", value |-> NoValue]

\* -------------------------------------------------------------- allow-list
\* api.split('.')[0]: the characters before the first '.'.
RECURSIVE SplitFirst(_)
SplitFirst(api) ==
    IF api = <<>> THEN <<>>
    ELSE IF Head(api) = Dot THEN <<>>
    ELSE <<Head(api)>> \o SplitFirst(Tail(api))

\* An allow-list that is empty until expose is called.
AllowedOrDefault_empty ==
    IF allowedAPIs.defined THEN allowedAPIs.list ELSE {}

\* window.__aegisAllowedAPIs || ['*']
AllowedOrDefault ==
    IF allowedAPIs.defined THEN allowedAPIs.list ELSE {Star}

\* isAllowed comparing the namespace of the action with the namespace of
\* each token.
isAllowed_tokenNamespace(api) ==
    LET allowed == AllowedOrDefault
        namespace == SplitFirst(api)
    IN IF Star \in allowed THEN TRUE
       ELSE IF api \in allowed THEN TRUE
       ELSE \E t \in allowed : SplitFirst(t) = namespace

isAllowed(api) ==
    LET allowed == AllowedOrDefault
        namespace == SplitFirst(api)
    IN IF Star \in allowed THEN TRUE
       ELSE IF api \in allowed THEN TRUE
       ELSE namespace \in allowed

\* --------------------------------------------------------------- transport
\* JSON.stringify({action, payload, callbackId}): a key whose value is
\* undefined is left out of the text.
JSONstringify(action, payload, id) ==
    IF payload = Undefined
    THEN [action |-> action, callbackId |-> id]
    ELSE [action |-> action, payload |-> payload, callbackId |-> id]

NoGate == [done |-> FALSE, api |-> <<>>, result |-> FALSE]

\* No function has been made by Aegis.throttle.
NoThrottle ==
    /\ limit = 0
    /\ inThrottle = FALSE
    /\ throttled = <<>>

\* new FileManager(): this.currentPath = ''; this.history = [];
\* this.historyIndex = -1; no navigation has been started.
NewFileManager ==
    /\ currentPath = <<"">>
    /\ history = <<>>
    /\ historyIndex = -1
    /\ navigating = <<>>

\* No function has been made by Aegis.debounce.
NoDebounce ==
    /\ wait = 0
    /\ timeout = 0
    /\ timers = {}
    /\ funcCalls = <<>>
    /\ idle = 0
    /\ lastArgs = "undefined"

Init ==
    /\ callbackId = 0
    /\ pendingCallbacks = EmptyMap
    /\ progressCallbacks = EmptyMap
    /\ allowedAPIs = [defined |-> FALSE, list |-> {}]
    /\ bridge = TRUE
    /\ customHandlers = {}
    /\ posted = <<>>
    /\ calls = <<>>
    /\ invoked = <<>>
    /\ gate = NoGate
    /\ NoDebounce
    /\ NoThrottle
    /\ NewFileManager

\* ------------------------------------------------------------- bridge core
\* invoke taking the next id from the size of the registry.
invoke_idFromSize(entry, action, payload) ==
    LET id == Cardinality(DOMAIN pendingCallbacks) + 1
        p == IF payload = Undefined THEN EmptyObject ELSE payload
        idx == Len(calls) + 1
        registered == Append(calls, NewCall(entry, action, id, Undefined))
    IN /\ callbackId' = id
       /\ pendingCallbacks' = MapSet(pendingCallbacks, id, idx)
       /\ IF bridge
          THEN /\ posted' = Append(posted, JSONstringify(action, p, id))
               /\ calls' = registered
          ELSE /\ posted' = posted
               /\ calls' = Settle(registered, idx, "rejected", BridgeError)
       /\ invoked' = <<>>
       /\ UNCHANGED <<progressCallbacks, allowedAPIs, bridge, customHandlers>>

\* invoke without the else branch: nothing happens when the bridge is absent.
invoke_noReject(entry, action, payload) ==
    LET id == callbackId + 1
        p == IF payload = Undefined THEN EmptyObject ELSE payload
        idx == Len(calls) + 1
        registered == Append(calls, NewCall(entry, action, id, Undefined))
    IN /\ callbackId' = id
       /\ pendingCallbacks' = MapSet(pendingCallbacks, id, idx)
       /\ posted' = IF bridge
                    THEN Append(posted, JSONstringify(action, p, id))
                    ELSE posted
       /\ calls' = registered
       /\ invoked' = <<>>
       /\ UNCHANGED <<progressCallbacks, allowedAPIs, bridge, customHandlers>>

\* invoke without pendingCallbacks.set: the message goes out with an id that
\* has no entry.
invoke_noRegister(entry, action, payload) ==
    LET id == callbackId + 1
        p == IF payload = Undefined THEN EmptyObject ELSE payload
        idx == Len(calls) + 1
        registered == Append(calls, NewCall(entry, action, id, Undefined))
    IN /\ callbackId' = id
       /\ IF bridge
          THEN /\ posted' = Append(posted, JSONstringify(action, p, id))
               /\ calls' = registered
          ELSE /\ posted' = posted
               /\ calls' = Settle(registered, idx, "rejected", BridgeError)
       /\ invoked' = <<>>
       /\ UNCHANGED <<pendingCallbacks, progressCallbacks, allowedAPIs, bridge,
                      customHandlers>>

\* function invoke(action, payload = {})
invoke(entry, action, payload) ==
    LET id == callbackId + 1
        p == IF payload = Undefined THEN EmptyObject ELSE payload
        idx == Len(calls) + 1
        registered == Append(calls, NewCall(entry, action, id, Undefined))
    IN /\ callbackId' = id
       /\ pendingCallbacks' = MapSet(pendingCallbacks, id, idx)
       /\ IF bridge
          THEN /\ posted' = Append(posted, JSONstringify(action, p, id))
               /\ calls' = registered
          ELSE /\ posted' = posted
               /\ calls' = Settle(registered, idx, "rejected", BridgeError)
       /\ invoked' = <<>>
       /\ UNCHANGED <<progressCallbacks, allowedAPIs, bridge, customHandlers>>

\* Promise.reject(new Error(...)) and the early return of invokeWithProgress:
\* a promise rejected by the gate, nothing else touched.
GateReject(entry, action, onProgress) ==
    LET idx == Len(calls) + 1
    IN /\ calls' = Settle(Append(calls, NewCall(entry, action, 0, onProgress)),
                          idx, "rejected", NotAllowedError(action))
       /\ invoked' = <<>>
       /\ UNCHANGED <<callbackId, pendingCallbacks, progressCallbacks,
                      allowedAPIs, bridge, customHandlers, posted>>

\* guardedInvoke without the gate.
guardedInvoke_noGate(action, payload) ==
    invoke("guarded", action, payload)

\* The function returned by guardedInvoke(action), called with payload.
guardedInvoke(action, payload) ==
    IF ~isAllowed(action)
    THEN GateReject("guarded", action, Undefined)
    ELSE invoke("guarded", action, payload)

\* invokeWithProgress without the return after reject: the rejected call goes
\* on to allocate an id, register and post.
invokeWithProgress_noReturn(action, payload, onProgress) ==
    LET id == callbackId + 1
        idx == Len(calls) + 1
        new == Append(calls, NewCall("progress", action,
                                     IF isAllowed(action) THEN id ELSE 0,
                                     onProgress))
        registered == IF isAllowed(action) THEN new
                      ELSE Settle(new, idx, "rejected",
                                  NotAllowedError(action))
    IN /\ callbackId' = id
       /\ pendingCallbacks' = MapSet(pendingCallbacks, id, idx)
       /\ progressCallbacks' =
             IF onProgress # Undefined /\ onProgress \in Functions
             THEN MapSet(progressCallbacks, id, onProgress)
             ELSE progressCallbacks
       /\ IF bridge
          THEN /\ posted' = Append(posted, JSONstringify(action, payload, id))
               /\ calls' = registered
          ELSE /\ posted' = posted
               /\ calls' = Settle(registered, idx, "rejected", BridgeError)
       /\ invoked' = <<>>
       /\ UNCHANGED <<allowedAPIs, bridge, customHandlers>>

\* invokeWithProgress without the typeof test: whatever is passed as
\* onProgress, if truthy, is stored as the progress callback.
invokeWithProgress_anyTruthy(action, payload, onProgress) ==
    IF ~isAllowed(action)
    THEN GateReject("progress", action, onProgress)
    ELSE LET id == callbackId + 1
             idx == Len(calls) + 1
             registered == Append(calls, NewCall("progress", action, id,
                                                onProgress))
         IN /\ callbackId' = id
            /\ pendingCallbacks' = MapSet(pendingCallbacks, id, idx)
            /\ progressCallbacks' =
                  IF onProgress \notin {Undefined, "null"}
                  THEN MapSet(progressCallbacks, id, onProgress)
                  ELSE progressCallbacks
            /\ IF bridge
               THEN /\ posted' = Append(posted,
                                        JSONstringify(action, payload, id))
                    /\ calls' = registered
               ELSE /\ posted' = posted
                    /\ calls' = Settle(registered, idx, "rejected",
                                       BridgeError)
            /\ invoked' = <<>>
            /\ UNCHANGED <<allowedAPIs, bridge, customHandlers>>

\* function invokeWithProgress(action, payload, onProgress)
invokeWithProgress(action, payload, onProgress) ==
    IF ~isAllowed(action)
    THEN GateReject("progress", action, onProgress)
    ELSE LET id == callbackId + 1
             idx == Len(calls) + 1
             registered == Append(calls, NewCall("progress", action, id,
                                                onProgress))
         IN /\ callbackId' = id
            /\ pendingCallbacks' = MapSet(pendingCallbacks, id, idx)
            /\ progressCallbacks' =
                  IF onProgress # Undefined /\ onProgress \in Functions
                  THEN MapSet(progressCallbacks, id, onProgress)
                  ELSE progressCallbacks
            /\ IF bridge
               THEN /\ posted' = Append(posted,
                                        JSONstringify(action, payload, id))
                    /\ calls' = registered
               ELSE /\ posted' = posted
                    /\ calls' = Settle(registered, idx, "rejected",
                                       BridgeError)
            /\ invoked' = <<>>
            /\ UNCHANGED <<allowedAPIs, bridge, customHandlers>>

\* ----------------------------------------------------------- public object
\* Aegis.read, Aegis.run, Aegis.dialog.open, ...
GuardedCall(action, payload) ==
    /\ Len(calls) < MaxCalls
    /\ guardedInvoke(action, payload)
    /\ UNCHANGED otherVars

\* Aegis.runAsync, Aegis.download, Aegis.copyAsync
ProgressCall(action, payload, onProgress) ==
    /\ Len(calls) < MaxCalls
    /\ invokeWithProgress(action, payload, onProgress)
    /\ UNCHANGED otherVars

\* expose adding the tokens to the list already in place.
Expose_append(apis) ==
    /\ allowedAPIs' = [defined |-> TRUE, list |-> allowedAPIs.list \cup apis]
    /\ invoked' = <<>>
    /\ UNCHANGED <<callbackId, pendingCallbacks, progressCallbacks, bridge,
                   customHandlers, posted, calls>>
    /\ UNCHANGED otherVars

\* Aegis.expose(apis)
Expose(apis) ==
    /\ allowedAPIs' = [defined |-> TRUE, list |-> apis]
    /\ invoked' = <<>>
    /\ UNCHANGED <<callbackId, pendingCallbacks, progressCallbacks, bridge,
                   customHandlers, posted, calls>>
    /\ UNCHANGED otherVars

\* Aegis.exposeAll()
ExposeAll ==
    /\ allowedAPIs' = [defined |-> TRUE, list |-> {Star}]
    /\ invoked' = <<>>
    /\ UNCHANGED <<callbackId, pendingCallbacks, progressCallbacks, bridge,
                   customHandlers, posted, calls>>
    /\ UNCHANGED otherVars

\* Aegis.handle(name, handler)
Handle(name) ==
    /\ customHandlers' = customHandlers \cup {name}
    /\ invoked' = <<>>
    /\ UNCHANGED <<callbackId, pendingCallbacks, progressCallbacks,
                   allowedAPIs, bridge, posted, calls>>
    /\ UNCHANGED otherVars

\* Aegis._customHandlers && Aegis._customHandlers[action]: the object exists
\* once handle has been called, and the property read also finds what the
\* object inherits.
CustomHandlerLookup(action) ==
    /\ customHandlers # {}
    /\ (action \in customHandlers \/ action \in ObjectPrototypeKeys)

\* Aegis.invoke that runs the handler and then makes the bridge call too.
AegisInvoke_handlerThenBridge(action, payload) ==
    /\ Len(calls) < MaxCalls
    /\ invoke(IF CustomHandlerLookup(action) THEN "handler" ELSE "invoke",
              action, payload)
    /\ UNCHANGED otherVars

\* Aegis.invoke(action, payload)
AegisInvoke(action, payload) ==
    /\ Len(calls) < MaxCalls
    /\ IF CustomHandlerLookup(action)
       THEN LET idx == Len(calls) + 1
            IN /\ calls' = Settle(Append(calls, NewCall("handler", action, 0,
                                                        Undefined)),
                                  idx, "resolved",
                                  IF action \in customHandlers
                                  THEN HandlerResult ELSE PrototypeResult)
               /\ invoked' = <<>>
               /\ UNCHANGED <<callbackId, pendingCallbacks, progressCallbacks,
                              allowedAPIs, bridge, customHandlers, posted>>
       ELSE invoke("invoke", action, payload)
    /\ UNCHANGED otherVars

\* ------------------------------------------------------ inbound deliveries
\* The counterpart answers with any id handed out so far, or with one that
\* was not handed out (yet).
ResponseIds == 1..(callbackId + 1)

TerminalResponses ==
    [callbackId : ResponseIds, success : {TRUE}, data : ResponseData,
     error : {NoValue}]
    \cup
    [callbackId : ResponseIds, success : {FALSE}, data : {NoValue},
     error : ResponseErrors]

ProgressResponses == [callbackId : ResponseIds, data : ProgressData]

\* __aegisResolve checking the allow-list again: a delivery for a call whose
\* action is no longer covered is dropped.
AegisResolve_gated(response) ==
    /\ IF /\ MapHas(pendingCallbacks, response.callbackId)
          /\ isAllowed(calls[pendingCallbacks[response.callbackId]].action)
       THEN LET callback == pendingCallbacks[response.callbackId]
            IN /\ pendingCallbacks' =
                     MapDelete(pendingCallbacks, response.callbackId)
               /\ progressCallbacks' =
                     MapDelete(progressCallbacks, response.callbackId)
               /\ calls' = IF response.success
                           THEN Settle(calls, callback, "resolved",
                                       response.data)
                           ELSE Settle(calls, callback, "rejected",
                                       response.error)
               /\ invoked' = <<>>
       ELSE /\ invoked' = <<>>
            /\ UNCHANGED <<pendingCallbacks, progressCallbacks, calls>>
    /\ UNCHANGED <<callbackId, allowedAPIs, bridge, customHandlers, posted>>
    /\ UNCHANGED otherVars

\* __aegisResolve putting the allow-list back to its default when it
\* settles a call.
AegisResolve_resetAllowList(response) ==
    /\ IF MapHas(pendingCallbacks, response.callbackId)
       THEN LET callback == pendingCallbacks[response.callbackId]
            IN /\ pendingCallbacks' =
                     MapDelete(pendingCallbacks, response.callbackId)
               /\ progressCallbacks' =
                     MapDelete(progressCallbacks, response.callbackId)
               /\ calls' = IF response.success
                           THEN Settle(calls, callback, "resolved",
                                       response.data)
                           ELSE Settle(calls, callback, "rejected",
                                       response.error)
               /\ allowedAPIs' = [defined |-> FALSE, list |-> {}]
               /\ invoked' = <<>>
       ELSE /\ invoked' = <<>>
            /\ UNCHANGED <<pendingCallbacks, progressCallbacks, calls,
                           allowedAPIs>>
    /\ UNCHANGED <<callbackId, bridge, customHandlers, posted>>
    /\ UNCHANGED otherVars

\* __aegisResolve settling the promise and leaving the entries in place.
AegisResolve_keepEntries(response) ==
    /\ IF MapHas(pendingCallbacks, response.callbackId)
       THEN LET callback == pendingCallbacks[response.callbackId]
            IN /\ calls' = IF response.success
                           THEN Settle(calls, callback, "resolved",
                                       response.data)
                           ELSE Settle(calls, callback, "rejected",
                                       response.error)
               /\ invoked' = <<>>
               /\ UNCHANGED <<pendingCallbacks, progressCallbacks>>
       ELSE /\ invoked' = <<>>
            /\ UNCHANGED <<pendingCallbacks, progressCallbacks, calls>>
    /\ UNCHANGED <<callbackId, allowedAPIs, bridge, customHandlers, posted>>
    /\ UNCHANGED otherVars

\* __aegisResolve emptying both maps when it settles a call.
AegisResolve_clearRegistry(response) ==
    /\ IF MapHas(pendingCallbacks, response.callbackId)
       THEN LET callback == pendingCallbacks[response.callbackId]
            IN /\ pendingCallbacks' = EmptyMap
               /\ progressCallbacks' = EmptyMap
               /\ calls' = IF response.success
                           THEN Settle(calls, callback, "resolved",
                                       response.data)
                           ELSE Settle(calls, callback, "rejected",
                                       response.error)
               /\ invoked' = <<>>
       ELSE /\ invoked' = <<>>
            /\ UNCHANGED <<pendingCallbacks, progressCallbacks, calls>>
    /\ UNCHANGED <<callbackId, allowedAPIs, bridge, customHandlers, posted>>
    /\ UNCHANGED otherVars

\* __aegisResolve without progressCallbacks.delete.
AegisResolve_keepProgress(response) ==
    /\ IF MapHas(pendingCallbacks, response.callbackId)
       THEN LET callback == pendingCallbacks[response.callbackId]
            IN /\ pendingCallbacks' =
                     MapDelete(pendingCallbacks, response.callbackId)
               /\ calls' = IF response.success
                           THEN Settle(calls, callback, "resolved",
                                       response.data)
                           ELSE Settle(calls, callback, "rejected",
                                       response.error)
               /\ invoked' = <<>>
               /\ UNCHANGED progressCallbacks
       ELSE /\ invoked' = <<>>
            /\ UNCHANGED <<pendingCallbacks, progressCallbacks, calls>>
    /\ UNCHANGED <<callbackId, allowedAPIs, bridge, customHandlers, posted>>
    /\ UNCHANGED otherVars

\* __aegisResolve clearing the registry when the id is not found.
AegisResolve_clearOnUnknown(response) ==
    /\ IF MapHas(pendingCallbacks, response.callbackId)
       THEN LET callback == pendingCallbacks[response.callbackId]
            IN /\ pendingCallbacks' =
                     MapDelete(pendingCallbacks, response.callbackId)
               /\ progressCallbacks' =
                     MapDelete(progressCallbacks, response.callbackId)
               /\ calls' = IF response.success
                           THEN Settle(calls, callback, "resolved",
                                       response.data)
                           ELSE Settle(calls, callback, "rejected",
                                       response.error)
               /\ invoked' = <<>>
       ELSE /\ invoked' = <<>>
            /\ pendingCallbacks' = EmptyMap
            /\ progressCallbacks' = EmptyMap
            /\ UNCHANGED calls
    /\ UNCHANGED <<callbackId, allowedAPIs, bridge, customHandlers, posted>>
    /\ UNCHANGED otherVars

\* window.__aegisResolve(response)
AegisResolve(response) ==
    /\ IF MapHas(pendingCallbacks, response.callbackId)
       THEN LET callback == pendingCallbacks[response.callbackId]
            IN /\ pendingCallbacks' =
                     MapDelete(pendingCallbacks, response.callbackId)
               /\ progressCallbacks' =
                     MapDelete(progressCallbacks, response.callbackId)
               /\ calls' = IF response.success
                           THEN Settle(calls, callback, "resolved",
                                       response.data)
                           ELSE Settle(calls, callback, "rejected",
                                       response.error)
               /\ invoked' = <<>>
       ELSE /\ invoked' = <<>>
            /\ UNCHANGED <<pendingCallbacks, progressCallbacks, calls>>
    /\ UNCHANGED <<callbackId, allowedAPIs, bridge, customHandlers, posted>>
    /\ UNCHANGED otherVars

\* __aegisProgress treating the delivery as the answer: it resolves the call
\* with the data and removes its entries.
AegisProgress_settles(response) ==
    /\ IF MapHas(progressCallbacks, response.callbackId)
       THEN LET callback == progressCallbacks[response.callbackId]
            IN /\ invoked' = <<[cb |-> callback, data |-> response.data,
                                id |-> response.callbackId]>>
               /\ calls' = Settle(calls, pendingCallbacks[response.callbackId],
                                  "resolved", response.data)
               /\ pendingCallbacks' =
                     MapDelete(pendingCallbacks, response.callbackId)
               /\ progressCallbacks' =
                     MapDelete(progressCallbacks, response.callbackId)
       ELSE /\ invoked' = <<>>
            /\ UNCHANGED <<pendingCallbacks, progressCallbacks, calls>>
    /\ UNCHANGED <<callbackId, allowedAPIs, bridge, customHandlers, posted>>
    /\ UNCHANGED otherVars

\* __aegisProgress handing the callback the whole response.
AegisProgress_wholeResponse(response) ==
    /\ IF MapHas(progressCallbacks, response.callbackId)
       THEN LET callback == progressCallbacks[response.callbackId]
            IN invoked' = <<[cb |-> callback, data |-> <<"response">>,
                             id |-> response.callbackId]>>
       ELSE invoked' = <<>>
    /\ UNCHANGED <<callbackId, pendingCallbacks, progressCallbacks,
                   allowedAPIs, bridge, customHandlers, posted, calls>>
    /\ UNCHANGED otherVars

\* window.__aegisProgress(response)
AegisProgress(response) ==
    /\ IF MapHas(progressCallbacks, response.callbackId)
       THEN LET callback == progressCallbacks[response.callbackId]
            IN invoked' = <<[cb |-> callback, data |-> response.data,
                             id |-> response.callbackId]>>
       ELSE invoked' = <<>>
    /\ UNCHANGED <<callbackId, pendingCallbacks, progressCallbacks,
                   allowedAPIs, bridge, customHandlers, posted, calls>>
    /\ UNCHANGED otherVars

\* A bridge that cancels the outstanding calls when the handler goes away.
SetBridge_cancelsPending(b) ==
    /\ bridge # b
    /\ bridge' = b
    /\ invoked' = <<>>
    /\ pendingCallbacks' = IF b THEN pendingCallbacks ELSE EmptyMap
    /\ progressCallbacks' = IF b THEN progressCallbacks ELSE EmptyMap
    /\ calls' = IF b THEN calls
                ELSE [i \in 1..Len(calls) |->
                        IF calls[i].state = "pending"
                        THEN [calls[i] EXCEPT !.state = "rejected",
                                              !.value = BridgeError]
                        ELSE calls[i]]
    /\ UNCHANGED <<callbackId, allowedAPIs, customHandlers, posted>>
    /\ UNCHANGED otherVars

\* The host attaches or detaches window.webkit.messageHandlers.aegis.
SetBridge(b) ==
    /\ bridge # b
    /\ bridge' = b
    /\ invoked' = <<>>
    /\ UNCHANGED <<callbackId, pendingCallbacks, progressCallbacks,
                   allowedAPIs, customHandlers, posted, calls>>
    /\ UNCHANGED otherVars

\* The calls of the public object that reach the bridge, the deliveries of
\* the counterpart and the host attaching or detaching the transport.
\* Aegis.handle is exercised by SpecHandlers below.
Next ==
    \/ \E a \in GuardedArgs : GuardedCall(a[1], a[2])
    \/ \E a \in ProgressArgs : ProgressCall(a[1], a[2], a[3])
    \/ \E a \in InvokeArgs : AegisInvoke(a[1], a[2])
    \/ \E l \in ExposeLists : Expose(l)
    \/ ExposeAll
    \/ \E r \in TerminalResponses : AegisResolve(r)
    \/ \E r \in ProgressResponses : AegisProgress(r)
    \/ \E b \in BOOLEAN : SetBridge(b)

Spec == Init /\ [][Next]_vars

\* ------------------------------------------- a counterpart that answers
\* The bridge with a counterpart that sends a terminal delivery for every
\* request it received: the calls, the deliveries, the transport coming and
\* going.
Answer(id) ==
    /\ \E k \in 1..Len(posted) : posted[k].callbackId = id
    /\ \E r \in TerminalResponses : r.callbackId = id /\ AegisResolve(r)

NextAnswered ==
    \/ \E a \in GuardedArgs : GuardedCall(a[1], a[2])
    \/ \E a \in ProgressArgs : ProgressCall(a[1], a[2], a[3])
    \/ \E r \in TerminalResponses : AegisResolve(r)
    \/ \E r \in ProgressResponses : AegisProgress(r)
    \/ \E b \in BOOLEAN : SetBridge(b)

SpecAnswered ==
    Init /\ [][NextAnswered]_vars
         /\ \A id \in 1..MaxCalls : WF_vars(Answer(id))

\* ------------------------------------------------ the gate as a function
\* isAllowed applied to any action string under any configured token list.
RECURSIVE StringsUpTo(_)
StringsUpTo(n) ==
    IF n = 0 THEN {<<>>}
    ELSE LET shorter == StringsUpTo(n - 1)
         IN shorter \cup {Append(str, c) : str \in shorter, c \in GateAlphabet}

GateStrings ==
    StringsUpTo(MaxStrLen)
    \cup {s_run, s_run_async, s_dialog, s_dialog_open, s_dialog_save,
          s_dialog_message}

RECURSIVE ListsUpTo(_)
ListsUpTo(n) ==
    IF n = 0 THEN {{}}
    ELSE LET smaller == ListsUpTo(n - 1)
         IN smaller \cup {l \cup {t} : l \in smaller, t \in GateStrings}

InitGate ==
    /\ callbackId = 0
    /\ pendingCallbacks = EmptyMap
    /\ progressCallbacks = EmptyMap
    /\ allowedAPIs \in {[defined |-> FALSE, list |-> {}]}
                       \cup [defined : {TRUE}, list : ListsUpTo(MaxTokens)]
    /\ bridge = TRUE
    /\ customHandlers = {}
    /\ posted = <<>>
    /\ calls = <<>>
    /\ invoked = <<>>
    /\ gate = NoGate
    /\ NoDebounce
    /\ NoThrottle
    /\ NewFileManager

GateCheck(api) ==
    /\ ~gate.done
    /\ gate' = [done |-> TRUE, api |-> api, result |-> isAllowed(api)]
    /\ UNCHANGED <<callbackId, pendingCallbacks, progressCallbacks,
                   allowedAPIs, bridge, customHandlers, posted, calls,
                   invoked, debounceVars, throttleVars, fmVars>>

NextGate == \E api \in GateStrings : GateCheck(api)

SpecGate == InitGate /\ [][NextGate]_vars

\* ------------------------------------------------ expose after expose
\* Aegis.expose and Aegis.exposeAll called any number of times, with lists
\* that cover different actions and with the empty list, between calls of
\* the guarded functions and the progress APIs.
ExposeListsAll == ExposeLists \cup { {s_run}, {s_run_async, s_copy}, {} }

NextExpose ==
    \/ \E l \in ExposeListsAll : Expose(l)
    \/ ExposeAll
    \/ \E a \in GuardedArgs : GuardedCall(a[1], a[2])
    \/ \E a \in ProgressArgs : ProgressCall(a[1], a[2], a[3])

SpecExpose == Init /\ [][NextExpose]_vars

\* --------------------------------------------------- the custom handlers
\* Aegis.handle and Aegis.invoke with registered names, names that are not
\* registered and a name every object inherits.
HandlerInvokeArgs ==
    { <<s_run, "p1">>, <<s_customAction, "undefined">>, <<s_toString, "p1">> }
HandlerHandleArgs == HandlerNames \cup {s_customAction}

NextHandlers ==
    \/ \E n \in HandlerHandleArgs : Handle(n)
    \/ \E a \in HandlerInvokeArgs : AegisInvoke(a[1], a[2])
    \/ \E r \in TerminalResponses : AegisResolve(r)
    \/ \E b \in BOOLEAN : SetBridge(b)

SpecHandlers == Init /\ [][NextHandlers]_vars

\* -------------------------------------------- what is passed as onProgress
\* Streaming calls made with a function, with nothing, with null and with a
\* value that is truthy and not a function (an object), next to a one-shot
\* call.
ProgressArgsAll ==
    { <<s_run_async, "p1", "cbA">>, <<s_download, "p1", "undefined">>,
      <<s_copy_async, "p1", "null">>, <<s_run_async, "p1", "anObject">> }

NextProgress ==
    \/ \E a \in InvokeArgs : GuardedCall(a[1], a[2])
    \/ \E a \in ProgressArgsAll : ProgressCall(a[1], a[2], a[3])
    \/ \E r \in TerminalResponses : AegisResolve(r)
    \/ \E r \in ProgressResponses : AegisProgress(r)
    \/ \E b \in BOOLEAN : SetBridge(b)

SpecProgress == Init /\ [][NextProgress]_vars

\* ---------------------------------------------------------- Aegis.debounce
\* One function returned by Aegis.debounce(func, wait), the calls made to it,
\* the clock and the timers of the host.  A timer is [id, remaining, args]:
\* the id setTimeout returned, the ticks left before it is due and the
\* arguments its callback applies func to.
DebounceArgs == {"x", "y"}

InitDebounce ==
    /\ callbackId = 0
    /\ pendingCallbacks = EmptyMap
    /\ progressCallbacks = EmptyMap
    /\ allowedAPIs = [defined |-> FALSE, list |-> {}]
    /\ bridge = TRUE
    /\ customHandlers = {}
    /\ posted = <<>>
    /\ calls = <<>>
    /\ invoked = <<>>
    /\ gate = NoGate
    /\ wait \in 0..MaxWait
    /\ timeout = 0
    /\ timers = {}
    /\ funcCalls = <<>>
    /\ idle = 0
    /\ lastArgs = "undefined"
    /\ NoThrottle
    /\ NewFileManager

\* clearTimeout(id): the timer with that id, if it has not run, never runs.
clearTimeout(ts, id) == {t \in ts : t.id # id}

\* The debounced function without clearTimeout.
Debounced_noClear(args) ==
    /\ timeout < MaxDebounceCalls
    /\ timeout' = timeout + 1
    /\ timers' = timers \cup
                    {[id |-> timeout + 1, remaining |-> wait, args |-> args]}
    /\ idle' = 0
    /\ lastArgs' = args
    /\ UNCHANGED <<wait, funcCalls>>
    /\ UNCHANGED <<callbackId, pendingCallbacks, progressCallbacks,
                   allowedAPIs, bridge, customHandlers, posted, calls,
                   invoked, gate, throttleVars,
                   fmVars>>

\* The function returned by debounce, called with args:
\* clearTimeout(timeout); timeout = setTimeout(() => func.apply(this, args),
\* wait).  setTimeout hands out the ids 1, 2, ...
Debounced(args) ==
    /\ timeout < MaxDebounceCalls
    /\ timeout' = timeout + 1
    /\ timers' = clearTimeout(timers, timeout) \cup
                    {[id |-> timeout + 1, remaining |-> wait, args |-> args]}
    /\ idle' = 0
    /\ lastArgs' = args
    /\ UNCHANGED <<wait, funcCalls>>
    /\ UNCHANGED <<callbackId, pendingCallbacks, progressCallbacks,
                   allowedAPIs, bridge, customHandlers, posted, calls,
                   invoked, gate, throttleVars,
                   fmVars>>

\* One tick of the clock.  A timer that is due may still wait for its turn
\* on the event loop.
Tick ==
    /\ (idle < MaxWait \/ \E t \in timers : t.remaining > 0)
    /\ idle' = IF idle < MaxWait THEN idle + 1 ELSE idle
    /\ timers' = {[t EXCEPT !.remaining = IF @ > 0 THEN @ - 1 ELSE 0] :
                     t \in timers}
    /\ UNCHANGED <<wait, timeout, funcCalls, lastArgs>>
    /\ UNCHANGED <<callbackId, pendingCallbacks, progressCallbacks,
                   allowedAPIs, bridge, customHandlers, posted, calls,
                   invoked, gate, throttleVars,
                   fmVars>>

\* The host runs the callback of a timer that is due:
\* () => func.apply(this, args)
TimerFires(t) ==
    /\ t \in timers
    /\ t.remaining = 0
    /\ timers' = timers \ {t}
    /\ funcCalls' = Append(funcCalls, t.args)
    /\ UNCHANGED <<wait, timeout, idle, lastArgs>>
    /\ UNCHANGED <<callbackId, pendingCallbacks, progressCallbacks,
                   allowedAPIs, bridge, customHandlers, posted, calls,
                   invoked, gate, throttleVars,
                   fmVars>>

RunTimer == \E t \in timers : TimerFires(t)

NextDebounce ==
    \/ \E args \in DebounceArgs : Debounced(args)
    \/ Tick
    \/ RunTimer

\* The clock goes on and the event loop gets to every timer that is due.
SpecDebounce ==
    InitDebounce /\ [][NextDebounce]_vars /\ WF_vars(Tick) /\ WF_vars(RunTimer)

\* ---------------------------------------------------------- Aegis.throttle
\* One function returned by Aegis.throttle(func, limit), the calls made to
\* it, the clock and the timers of the host.  The timer of a call that ran
\* func is [id, remaining, args]: id is the number of that call.
InitThrottle ==
    /\ callbackId = 0
    /\ pendingCallbacks = EmptyMap
    /\ progressCallbacks = EmptyMap
    /\ allowedAPIs = [defined |-> FALSE, list |-> {}]
    /\ bridge = TRUE
    /\ customHandlers = {}
    /\ posted = <<>>
    /\ calls = <<>>
    /\ invoked = <<>>
    /\ gate = NoGate
    /\ wait = 0
    /\ timeout = 0
    /\ timers = {}
    /\ funcCalls = <<>>
    /\ idle = 0
    /\ lastArgs = "undefined"
    /\ limit \in 0..MaxWait
    /\ inThrottle = FALSE
    /\ throttled = <<>>
    /\ NewFileManager

\* The throttled function without inThrottle = true.
Throttled_noFlag(args) ==
    /\ Len(throttled) < MaxThrottleCalls
    /\ IF ~inThrottle
       THEN /\ funcCalls' = Append(funcCalls, args)
            /\ timers' = timers \cup
                            {[id |-> Len(throttled) + 1, remaining |-> limit,
                              args |-> args]}
            /\ idle' = 0
            /\ throttled' = Append(throttled, [args |-> args, ran |-> TRUE])
            /\ UNCHANGED inThrottle
       ELSE /\ throttled' = Append(throttled, [args |-> args, ran |-> FALSE])
            /\ UNCHANGED <<funcCalls, inThrottle, timers, idle>>
    /\ UNCHANGED <<wait, timeout, lastArgs, limit>>
    /\ UNCHANGED <<callbackId, pendingCallbacks, progressCallbacks,
                   allowedAPIs, bridge, customHandlers, posted, calls,
                   invoked, gate, fmVars>>

\* The function returned by throttle, called with args:
\* if (!inThrottle) { func.apply(this, args); inThrottle = true;
\*                    setTimeout(() => inThrottle = false, limit); }
Throttled(args) ==
    /\ Len(throttled) < MaxThrottleCalls
    /\ IF ~inThrottle
       THEN /\ funcCalls' = Append(funcCalls, args)
            /\ inThrottle' = TRUE
            /\ timers' = timers \cup
                            {[id |-> Len(throttled) + 1, remaining |-> limit,
                              args |-> args]}
            /\ idle' = 0
            /\ throttled' = Append(throttled, [args |-> args, ran |-> TRUE])
       ELSE /\ throttled' = Append(throttled, [args |-> args, ran |-> FALSE])
            /\ UNCHANGED <<funcCalls, inThrottle, timers, idle>>
    /\ UNCHANGED <<wait, timeout, lastArgs, limit>>
    /\ UNCHANGED <<callbackId, pendingCallbacks, progressCallbacks,
                   allowedAPIs, bridge, customHandlers, posted, calls,
                   invoked, gate, fmVars>>

\* The host runs the callback of a timer that is due: () => inThrottle = false
ThrottleTimerFires(t) ==
    /\ t \in timers
    /\ t.remaining = 0
    /\ timers' = timers \ {t}
    /\ inThrottle' = FALSE
    /\ UNCHANGED <<wait, timeout, funcCalls, idle, lastArgs, limit, throttled>>
    /\ UNCHANGED <<callbackId, pendingCallbacks, progressCallbacks,
                   allowedAPIs, bridge, customHandlers, posted, calls,
                   invoked, gate, fmVars>>

RunThrottleTimer == \E t \in timers : ThrottleTimerFires(t)

NextThrottle ==
    \/ \E args \in DebounceArgs : Throttled(args)
    \/ Tick
    \/ RunThrottleTimer

SpecThrottle == InitThrottle /\ [][NextThrottle]_vars

\* ------------------------------------------------------------ file manager
\* The navigation of the file manager.  A path is the array path.split('/')
\* gives: '' is [''], '/' is ['', ''], '/a' is ['', 'a'], '/a/b' is
\* ['', 'a', 'b'].  What Aegis.exists, Aegis.read, Aegis.run and
\* Aegis.dialog.message answer is an input of the navigation; the bridge
\* they go through is left aside here.
RootPath == <<"", "">>
FMPaths == {RootPath, <<"", "a">>, <<"", "a", "b">>}
\* What a navigation finds: the path is a directory and is listed, it is a
\* directory and Aegis.read throws (caught inside loadFiles), it is a file,
\* it does not exist, or Aegis.exists throws.
ExistsOutcomes == {"directory", "readThrows", "file", "missing", "throws"}

InitFileManager ==
    /\ callbackId = 0
    /\ pendingCallbacks = EmptyMap
    /\ progressCallbacks = EmptyMap
    /\ allowedAPIs = [defined |-> FALSE, list |-> {}]
    /\ bridge = TRUE
    /\ customHandlers = {}
    /\ posted = <<>>
    /\ calls = <<>>
    /\ invoked = <<>>
    /\ gate = NoGate
    /\ NoDebounce
    /\ NoThrottle
    /\ NewFileManager

\* this.history[i], with JavaScript's index from 0; undefined outside.
HistoryAt(h, i) == IF i + 1 \in DOMAIN h THEN h[i + 1] ELSE <<Undefined>>

\* array.slice(0, end) for end >= 0
Slice0(h, end) == SubSeq(h, 1, IF end < Len(h) THEN end ELSE Len(h))

\* this.currentPath.split('/').slice(0, -1).join('/') || '/'
ParentPath(path) ==
    LET parts == SubSeq(path, 1, Len(path) - 1)
    IN IF Len(parts) <= 1 THEN RootPath ELSE parts

\* navigateTo(path) up to `await Aegis.exists({ path })`.
navigateTo(path, op) ==
    navigating' = Append(navigating, [path |-> path, op |-> op])

\* The part of the state no file manager operation touches.
FMFrame ==
    UNCHANGED <<callbackId, pendingCallbacks, progressCallbacks, allowedAPIs,
                bridge, customHandlers, posted, calls, invoked, gate,
                debounceVars, throttleVars>>

\* A click in the sidebar, Enter in the address bar, a double click on an
\* item: this.navigateTo(path).
NavigateTo(path) ==
    /\ Len(navigating) < MaxNavigating
    /\ Len(history) + Len(navigating) < MaxHistory
    /\ navigateTo(path, "navigateTo")
    /\ UNCHANGED <<currentPath, history, historyIndex>>
    /\ FMFrame

\* goBack()
GoBack ==
    /\ Len(navigating) < MaxNavigating
    /\ IF historyIndex > 0
       THEN /\ historyIndex' = historyIndex - 1
            /\ navigateTo(HistoryAt(history, historyIndex - 1), "goBack")
       ELSE UNCHANGED <<historyIndex, navigating>>
    /\ UNCHANGED <<currentPath, history>>
    /\ FMFrame

\* goForward()
GoForward ==
    /\ Len(navigating) < MaxNavigating
    /\ Len(history) + Len(navigating) < MaxHistory
    /\ IF historyIndex < Len(history) - 1
       THEN /\ historyIndex' = historyIndex + 1
            /\ navigateTo(HistoryAt(history, historyIndex + 1), "goForward")
       ELSE UNCHANGED <<historyIndex, navigating>>
    /\ UNCHANGED <<currentPath, history>>
    /\ FMFrame

\* goUp()
GoUp ==
    /\ Len(navigating) < MaxNavigating
    /\ Len(history) + Len(navigating) < MaxHistory
    /\ navigateTo(ParentPath(currentPath), "goUp")
    /\ UNCHANGED <<currentPath, history, historyIndex>>
    /\ FMFrame

\* navigateTo from the answer of Aegis.exists to its end.  Only a directory
\* gets past the two early returns; the history is then cut after
\* historyIndex and the path pushed, unless the path is the current one.
NavigateResume(k, outcome) ==
    LET path == navigating[k].path
    IN /\ navigating' = [i \in 1..(Len(navigating) - 1) |->
                           IF i < k THEN navigating[i] ELSE navigating[i + 1]]
       /\ IF outcome \in {"directory", "readThrows"}
          THEN /\ IF currentPath # path
                  THEN /\ history' =
                             Append(Slice0(history, historyIndex + 1), path)
                       /\ historyIndex' = Len(history') - 1
                  ELSE UNCHANGED <<history, historyIndex>>
               /\ currentPath' = path
          ELSE UNCHANGED <<currentPath, history, historyIndex>>
       /\ FMFrame

\* The answer of Aegis.exists arrives for one of the waiting navigations.
ResumeNavigation ==
    \E k \in 1..Len(navigating), outcome \in ExistsOutcomes :
       NavigateResume(k, outcome)

NextFileManager ==
    \/ \E path \in FMPaths : NavigateTo(path)
    \/ GoBack
    \/ GoForward
    \/ GoUp
    \/ ResumeNavigation

SpecFileManager == InitFileManager /\ [][NextFileManager]_vars

\* ================================================================== claims
\* What the claims mean by an action covered by a token list: the list holds
\* the wildcard, the action itself, or the part of the action before its
\* first '.'.
IsNamespaceLen(action, n) ==
    /\ \A k \in 1..n : action[k] # Dot
    /\ (n = Len(action) \/ action[n + 1] = Dot)

Covered(tokens, action) ==
    \/ Star \in tokens
    \/ action \in tokens
    \/ \E n \in 0..Len(action) :
          IsNamespaceLen(action, n) /\ SubSeq(action, 1, n) \in tokens

\* A step in which a call was made, and the record of that call.
CallMade == Len(calls') = Len(calls) + 1
TheCall == calls'[Len(calls')]

GateRejected(c) ==
    c.state = "rejected" /\ c.value = NotAllowedError(c.action)
BridgeFailed(c) == c.state = "rejected" /\ c.value = BridgeError
PostedIds == {posted[k].callbackId : k \in 1..Len(posted)}

\* C1: with an allow-list that has no wildcard, a call of a guarded function
\* or of a progress API whose action the list does not cover returns a
\* rejected promise and posts no message.
C1_UncoveredCallRejectedWithoutPost ==
    [][(/\ CallMade
        /\ TheCall.entry \in {"guarded", "progress"}
        /\ allowedAPIs.defined
        /\ ~Covered(allowedAPIs.list, TheCall.action))
       => (TheCall.state = "rejected" /\ posted' = posted)]_vars

C1_Witness ==
    /\ allowedAPIs.defined
    /\ Star \notin allowedAPIs.list
    /\ \E i, j \in 1..Len(calls) :
          /\ calls[i].entry = "guarded"
          /\ calls[j].entry = "progress"
          /\ GateRejected(calls[i])
          /\ GateRejected(calls[j])
          /\ ~Covered(allowedAPIs.list, calls[i].action)
          /\ ~Covered(allowedAPIs.list, calls[j].action)

\* C2: while the allow-list holds neither '*' nor 'run' nor 'run.async', no
\* call on the public object posts a request whose action is 'run' or
\* 'run.async'.
C2_RunNeverPostedWhenNotExposed ==
    [][(/\ allowedAPIs.defined
        /\ allowedAPIs.list \cap {Star, s_run, s_run_async} = {}
        /\ Len(posted') > Len(posted))
       => posted'[Len(posted')].action \notin {s_run, s_run_async}]_vars

\* C3: a call rejected by the gate leaves the id counter and both registry
\* maps as they were; a call that is given an id receives the counter's value
\* plus one, so the next permitted call gets the id it would have received
\* had the rejected call never been made.
C3_GateRejectionChangesNothing ==
    [][/\ (CallMade /\ GateRejected(TheCall))
          => UNCHANGED <<callbackId, pendingCallbacks, progressCallbacks>>
       /\ (CallMade /\ TheCall.id # 0)
          => (TheCall.id = callbackId + 1 /\ callbackId' = TheCall.id)
      ]_vars

C3_Witness ==
    \E i, j \in 1..Len(calls) :
       /\ i < j
       /\ GateRejected(calls[i])
       /\ calls[j].id = 1

\* C4: isAllowed(action) is true exactly when the token list holds '*', the
\* action itself, or the part of the action before its first '.'; the token
\* 'dialog' lets 'dialog.message' pass and the token 'dialog.open' lets
\* neither 'dialog' nor 'dialog.save' pass.
C4_GateDecision ==
    (gate.done /\ allowedAPIs.defined) =>
       /\ gate.result <=> Covered(allowedAPIs.list, gate.api)
       /\ (allowedAPIs.list = {s_dialog} /\ gate.api = s_dialog_message)
             => gate.result
       /\ (allowedAPIs.list = {s_dialog_open}
           /\ gate.api \in {s_dialog, s_dialog_save})
             => ~gate.result

C4_Witness ==
    /\ gate.done
    /\ allowedAPIs.defined
    /\ allowedAPIs.list = {s_dialog_open}
    /\ gate.api = s_dialog_save
    /\ ~gate.result

\* C5: no two calls receive the same callbackId, ids grow strictly in call
\* order across invoke and invokeWithProgress, and an id whose entry was
\* removed is not handed out again.
C5_IdsUniqueAndIncreasing ==
    \A i, j \in 1..Len(calls) :
       (i < j /\ calls[i].id # 0 /\ calls[j].id # 0)
          => calls[i].id < calls[j].id

C5_Witness ==
    \E i, j \in 1..Len(calls) :
       /\ i < j
       /\ calls[i].entry \in {"guarded", "invoke"}
       /\ calls[j].entry = "progress"
       /\ calls[i].id # 0
       /\ calls[j].id # 0
       /\ calls[i].id \notin DOMAIN pendingCallbacks

\* C6: a promise that is settled keeps its outcome whatever is delivered
\* afterwards, and once a terminal delivery has been acted on for an id (its
\* entry is gone), a further terminal delivery for that id changes nothing:
\* a step that changes the bridge's state is not such a delivery.
C6_SettledOnceAndDuplicatesIgnored ==
    [][/\ \A i \in 1..Len(calls) :
             calls[i].state # "pending" => calls'[i] = calls[i]
       /\ \/ UNCHANGED <<callbackId, pendingCallbacks, progressCallbacks,
                          allowedAPIs, bridge, customHandlers, posted, calls>>
          \/ \A r \in TerminalResponses :
                ~(/\ r.callbackId <= callbackId
                  /\ r.callbackId \notin DOMAIN pendingCallbacks
                  /\ AegisResolve(r))
      ]_vars

C6_Witness ==
    /\ \E i \in 1..Len(calls) :
          /\ BridgeFailed(calls[i])
          /\ calls[i].id \notin DOMAIN pendingCallbacks
    /\ \E i \in 1..Len(calls) :
          /\ calls[i].state = "resolved"
          /\ calls[i].id # 0

\* C7: a permitted call made while the transport is absent returns a promise
\* rejected with the bridge-not-available error in the same step, and no
\* message carrying its id is posted then or later.
C7_UnavailableBridgeRejectsAndNeverPosts ==
    [][/\ (CallMade /\ TheCall.id # 0 /\ ~bridge)
          => (BridgeFailed(TheCall) /\ posted' = posted)
       /\ \A i \in 1..Len(calls') :
             BridgeFailed(calls'[i]) => calls'[i].id \notin PostedIds'
      ]_vars

C7_Witness ==
    /\ bridge
    /\ posted # <<>>
    /\ \E i \in 1..Len(calls) :
          /\ BridgeFailed(calls[i])
          /\ i < Len(calls)

\* C8: after a call whose send failed because the transport was absent,
\* neither registry map holds the call's id.
C8_NoOrphanAfterFailedSend ==
    \A i \in 1..Len(calls) :
       BridgeFailed(calls[i]) =>
          /\ calls[i].id \notin DOMAIN pendingCallbacks
          /\ calls[i].id \notin DOMAIN progressCallbacks

\* C9: a progress callback is invoked only for a call whose promise is still
\* pending.
C9_NoProgressAfterSettlement ==
    \A k \in 1..Len(invoked) :
       \A i \in 1..Len(calls) :
          calls[i].id = invoked[k].id => calls[i].state = "pending"

\* C10: a progress delivery for an id with a registered callback invokes the
\* callback given to the call that allocated that id, once, with the
\* delivered data, and nothing else; a delivery for an id without a
\* registered callback invokes nothing.
C10_ProgressInvokesOwnCallbackOnce ==
    [][/\ \A r \in ProgressResponses :
             (r.callbackId \in DOMAIN progressCallbacks /\ AegisProgress(r))
             => \E i \in 1..Len(calls) :
                   /\ calls[i].id = r.callbackId
                   /\ invoked' = <<[cb |-> calls[i].onProgress,
                                    data |-> r.data, id |-> r.callbackId]>>
       /\ \A k \in 1..Len(invoked') :
             invoked'[k].id \in DOMAIN progressCallbacks
      ]_vars

C10_Witness ==
    /\ Cardinality(DOMAIN progressCallbacks) = 2
    /\ \E i \in 1..Len(calls) :
          invoked = <<[cb |-> calls[i].onProgress, data |-> <<"d2">>,
                       id |-> calls[i].id]>>

\* The state of the bridge proper: everything but the per-step outputs.
bridgeState == <<callbackId, pendingCallbacks, progressCallbacks, allowedAPIs,
                 bridge, customHandlers, posted, calls>>

\* C11: a terminal delivery whose id has no entry in the pending map, and a
\* progress delivery whose id has no entry in the progress map, change
\* nothing (maps, counter, promises) and invoke no callback: a step that
\* changes the bridge's state or invokes a callback is not such a delivery.
C11_UnknownDeliveryChangesNothing ==
    [][IF UNCHANGED bridgeState
       THEN \/ invoked' = <<>>
            \/ \A r \in ProgressResponses :
                  ~(/\ r.callbackId \notin DOMAIN progressCallbacks
                    /\ AegisProgress(r))
       ELSE /\ \A r \in TerminalResponses :
                  ~(/\ r.callbackId \notin DOMAIN pendingCallbacks
                    /\ AegisResolve(r))
            /\ \A r \in ProgressResponses :
                  ~(/\ r.callbackId \notin DOMAIN progressCallbacks
                    /\ AegisProgress(r))
      ]_vars

\* A never-allocated id and a removed id are both deliverable while another
\* call is outstanding.
C11_Witness ==
    /\ callbackId = 2
    /\ DOMAIN pendingCallbacks = {2}
    /\ \E i \in 1..Len(calls) : calls[i].id = 2 /\ calls[i].state = "pending"
    /\ \E i \in 1..Len(calls) : calls[i].id = 1 /\ calls[i].state = "resolved"

\* C12: the ids of the progress map are ids of the pending map, before and
\* after every step, and after a terminal delivery for an id neither map
\* holds that id: a step that leaves the id in either map is not a terminal
\* delivery for it.
C12_ProgressIdsArePendingIds ==
    [][/\ DOMAIN progressCallbacks \subseteq DOMAIN pendingCallbacks
       /\ DOMAIN progressCallbacks' \subseteq DOMAIN pendingCallbacks'
       /\ \A r \in TerminalResponses :
             (\/ r.callbackId \in DOMAIN pendingCallbacks'
              \/ r.callbackId \in DOMAIN progressCallbacks')
             => ~AegisResolve(r)
      ]_vars

\* A call with a progress callback was settled by a terminal delivery and
\* both of its entries are gone.
C12_Witness ==
    \E i \in 1..Len(calls) :
       /\ calls[i].entry = "progress"
       /\ calls[i].onProgress \in Functions
       /\ calls[i].state = "resolved"
       /\ calls[i].id \notin DOMAIN pendingCallbacks
       /\ calls[i].id \notin DOMAIN progressCallbacks
       /\ progressCallbacks # EmptyMap

\* C13: a step posts at most one message; the id it carries is registered
\* in the pending map by the call that posts it and was not registered
\* before; an id enters the pending map only as the counter's next value,
\* and the counter never goes back, so no id is registered twice.
C13_PostedIdsRegisteredOnce ==
    [][/\ Len(posted') > Len(posted) =>
             LET m == posted'[Len(posted')]
             IN /\ Len(posted') = Len(posted) + 1
                /\ m.callbackId \in DOMAIN pendingCallbacks'
                /\ m.callbackId \notin DOMAIN pendingCallbacks
                /\ m.callbackId = callbackId + 1
       /\ \A id \in DOMAIN pendingCallbacks' :
             id \notin DOMAIN pendingCallbacks
                => (id = callbackId + 1 /\ callbackId' = id)
       /\ callbackId' >= callbackId
       /\ \A id \in DOMAIN pendingCallbacks : id <= callbackId
      ]_vars

\* Two messages were posted, by invoke and by invokeWithProgress, and the
\* entry of the first was removed since.
C13_Witness ==
    /\ Len(posted) = 2
    /\ posted[1].callbackId = 1
    /\ posted[2].callbackId = 2
    /\ DOMAIN pendingCallbacks = {2}
    /\ \E i, j \in 1..Len(calls) :
          /\ calls[i].entry \in {"guarded", "invoke"}
          /\ calls[j].entry = "progress"

\* C14: a terminal delivery for a registered id settles the promise of the
\* call that allocated the id, resolved with the delivered data when success
\* is true and rejected with the delivered error (the message of the Error
\* that is the reason) when it is false, and changes no other promise.
C14_TerminalDeliveryAppliesOutcome ==
    [][\A r \in TerminalResponses :
          (r.callbackId \in DOMAIN pendingCallbacks /\ AegisResolve(r))
          => LET i == pendingCallbacks[r.callbackId]
             IN /\ calls[i].id = r.callbackId
                /\ calls'[i].state =
                      IF r.success THEN "resolved" ELSE "rejected"
                /\ calls'[i].value = IF r.success THEN r.data ELSE r.error
                /\ \A j \in 1..Len(calls) : j # i => calls'[j] = calls[j]
      ]_vars

\* C15: while window.__aegisAllowedAPIs has not been set by expose or
\* exposeAll, isAllowed is true of every action string.
C15_PermissiveBeforeExpose ==
    (gate.done /\ ~allowedAPIs.defined) => gate.result

C15_Witness ==
    /\ gate.done
    /\ ~allowedAPIs.defined
    /\ gate.api = s_run_async
    /\ gate.result

\* C16: expose(tokens) leaves exactly tokens as the allow-list and
\* exposeAll leaves exactly the wildcard, whatever the list was before, and
\* no other step changes the list; a call of a guarded function or progress
\* API is rejected by the gate exactly when the list then in place does not
\* cover its action.
C16_ExposeReplacesAllowList ==
    [][/\ \A l \in ExposeListsAll :
             Expose(l) => allowedAPIs' = [defined |-> TRUE, list |-> l]
       /\ ExposeAll => allowedAPIs' = [defined |-> TRUE, list |-> {Star}]
       /\ allowedAPIs' # allowedAPIs
             => (ExposeAll \/ \E l \in ExposeListsAll : Expose(l))
       /\ (/\ CallMade
           /\ TheCall.entry \in {"guarded", "progress"}
           /\ allowedAPIs.defined)
          => (GateRejected(TheCall)
                 <=> ~Covered(allowedAPIs.list, TheCall.action))
      ]_vars

\* Aegis.run was rejected under one exposed list, and Aegis.copyAsync under
\* the list ['run'] that replaced it: a list that rejects 'run' here holds
\* 'copy', so the token 'copy' of the earlier list was not kept.
C16_Witness ==
    /\ allowedAPIs.defined
    /\ allowedAPIs.list = {s_run}
    /\ Len(calls) = 2
    /\ calls[1].action = s_run
    /\ GateRejected(calls[1])
    /\ calls[2].action = s_copy_async
    /\ GateRejected(calls[2])

\* C17: a pending promise is settled only by a terminal delivery carrying
\* its own id, with the outcome of that delivery; an entry leaves a registry
\* map only in a terminal delivery carrying its id; a callback is invoked
\* only in a progress delivery carrying the id it was registered under.
C17_CallsCompleteIndependently ==
    [][/\ \A i \in 1..Len(calls) :
             (calls[i].state = "pending" /\ calls'[i] # calls[i])
             => \E r \in TerminalResponses :
                   /\ r.callbackId = calls[i].id
                   /\ AegisResolve(r)
                   /\ calls'[i].state =
                         IF r.success THEN "resolved" ELSE "rejected"
                   /\ calls'[i].value =
                         IF r.success THEN r.data ELSE r.error
       /\ \A id \in (DOMAIN pendingCallbacks \ DOMAIN pendingCallbacks')
                   \cup (DOMAIN progressCallbacks \ DOMAIN progressCallbacks') :
             \E r \in TerminalResponses :
                r.callbackId = id /\ AegisResolve(r)
       /\ \A k \in 1..Len(invoked') :
             \E r \in ProgressResponses :
                /\ r.callbackId = invoked'[k].id
                /\ AegisProgress(r)
                /\ progressCallbacks[r.callbackId] = invoked'[k].cb
      ]_vars

\* Two calls are in flight and the later one was answered first.
C17_Witness ==
    /\ Len(posted) = 2
    /\ DOMAIN pendingCallbacks = {1}
    /\ DOMAIN progressCallbacks = {1}
    /\ \E i, j \in 1..Len(calls) :
          /\ calls[i].id = 1
          /\ calls[i].state = "pending"
          /\ calls[j].id = 2
          /\ calls[j].state = "rejected"
          /\ calls[j].value \in ResponseErrors

\* C18: a call whose message was posted and whose promise is pending has its
\* entry in the pending map, and the only step that settles the promise or
\* removes the entry is a terminal delivery carrying the call's id.
C18_PostedCallPendingUntilDelivery ==
    [][\A i \in 1..Len(calls) :
          (calls[i].id \in PostedIds /\ calls[i].state = "pending")
          => /\ calls[i].id \in DOMAIN pendingCallbacks
             /\ pendingCallbacks[calls[i].id] = i
             /\ (\/ calls'[i].state # "pending"
                 \/ calls[i].id \notin DOMAIN pendingCallbacks')
                => \E r \in TerminalResponses :
                      r.callbackId = calls[i].id /\ AegisResolve(r)
      ]_vars

\* A posted call is still pending after the bridge went away, another call
\* failed for want of it, and the bridge came back.
C18_Witness ==
    /\ bridge
    /\ Len(calls) = 2
    /\ calls[1].id = 1
    /\ calls[1].id \in PostedIds
    /\ calls[1].state = "pending"
    /\ 1 \in DOMAIN pendingCallbacks
    /\ BridgeFailed(calls[2])

C20_DebounceInvokesOncePerBurst ==
    /\ [][/\ Cardinality(timers) <= 1
           /\ Cardinality(timers') <= 1
           /\ Len(funcCalls') > Len(funcCalls)
                 => /\ idle >= wait
                    /\ funcCalls' = Append(funcCalls, lastArgs)
                    /\ timers' = {}
          ]_vars
    /\ (timers # {})
          ~> (/\ timers = {}
              /\ funcCalls # <<>>
              /\ funcCalls[Len(funcCalls)] = lastArgs)

\* A burst of three calls within the wait gave one invocation, with the
\* arguments of the last of them.
C20_Witness ==
    /\ wait = MaxWait
    /\ timeout = 3
    /\ timers = {}
    /\ funcCalls = <<"y">>
    /\ lastArgs = "y"

\* The arguments of the calls of the throttled function that ran func.
RECURSIVE RanArgs(_)
RanArgs(cs) ==
    IF cs = <<>> THEN <<>>
    ELSE IF Head(cs).ran THEN <<Head(cs).args>> \o RanArgs(Tail(cs))
    ELSE RanArgs(Tail(cs))

\* C21: func runs only inside a call of the throttled function, with that
\* call's arguments; the first call runs it; a call made while the timer of
\* the last run has not fired is dropped, and one made after it fired runs
\* func; two runs are at least limit apart; a dropped call is never run
\* later.
C21_ThrottleRunsOncePerInterval ==
    [][/\ inThrottle <=> (timers # {})
       /\ funcCalls = RanArgs(throttled)
       /\ funcCalls' = RanArgs(throttled')
       /\ funcCalls' # funcCalls =>
             /\ Len(throttled') = Len(throttled) + 1
             /\ funcCalls' = Append(funcCalls, throttled'[Len(throttled')].args)
             /\ (funcCalls = <<>> \/ idle >= limit)
       /\ Len(throttled') > Len(throttled) =>
             /\ throttled'[Len(throttled')].ran <=> (timers = {})
             /\ throttled = <<>> => throttled'[Len(throttled')].ran
      ]_vars

\* Of three calls the first ran func, the second came before the timer
\* fired and was dropped, the third came after it fired and ran func.
C21_Witness ==
    /\ limit = MaxWait
    /\ throttled = <<[args |-> "x", ran |-> TRUE], [args |-> "y", ran |-> FALSE],
                     [args |-> "x", ran |-> TRUE]>>
    /\ funcCalls = <<"x", "x">>

\* C22: a progress delivery, for any id, leaves both registry maps and every
\* promise as they were: a step that changes one of them is not a progress
\* delivery.
C22_ProgressNeverSettles ==
    [][\/ UNCHANGED <<pendingCallbacks, progressCallbacks, calls>>
       \/ \A r \in ProgressResponses : ~AegisProgress(r)
      ]_vars

\* A call in flight has just had its callback invoked by a progress
\* delivery and is still pending and registered in both maps.
C22_Witness ==
    /\ invoked # <<>>
    /\ invoked[1].id \in DOMAIN pendingCallbacks
    /\ invoked[1].id \in DOMAIN progressCallbacks
    /\ invoked[1].id \in PostedIds
    /\ \E i \in 1..Len(calls) :
          calls[i].id = invoked[1].id /\ calls[i].state = "pending"

\* C23: with a counterpart that answers every request it received, a call
\* whose message was posted ends with its promise settled and its id in
\* neither registry map.
C23_PostedCallEventuallySettled ==
    \A id \in 1..MaxCalls :
       (id \in PostedIds)
          ~> (/\ id \notin DOMAIN pendingCallbacks
              /\ id \notin DOMAIN progressCallbacks
              /\ \A i \in 1..Len(calls) :
                    calls[i].id = id => calls[i].state # "pending")

\* Two posted calls, one with a progress callback, were both answered.
C23_Witness ==
    /\ Len(posted) = 2
    /\ pendingCallbacks = EmptyMap
    /\ progressCallbacks = EmptyMap
    /\ \E i, j \in 1..Len(calls) :
          /\ calls[i].id = 1
          /\ calls[i].state = "resolved"
          /\ calls[j].id = 2
          /\ calls[j].onProgress \in Functions
          /\ calls[j].state = "rejected"
          /\ calls[j].value \in ResponseErrors

\* C24: a call posts at most one message, and exactly one when it passed the
\* gate with the transport present; the message has the keys action, payload
\* and callbackId, with the action the caller gave, the payload the caller
\* gave and the id the call allocated, whichever kind of call posted it.
C24_OneMessageWithCallersPayload ==
    [][CallMade =>
         /\ Len(posted') <= Len(posted) + 1
         /\ (TheCall.id # 0 /\ bridge) => Len(posted') = Len(posted) + 1
         /\ posted' # posted =>
              LET message == posted'[Len(posted')]
              IN /\ posted' = Append(posted, message)
                 /\ DOMAIN message = {"action", "payload", "callbackId"}
                 /\ message.action = TheCall.action
                 /\ message.callbackId = TheCall.id
                 /\ \A a \in GuardedArgs :
                       (a[2] # Undefined /\ GuardedCall(a[1], a[2]))
                          => message.payload = a[2]
                 /\ \A a \in ProgressArgs :
                       (a[2] # Undefined /\ ProgressCall(a[1], a[2], a[3]))
                          => message.payload = a[2]
                 /\ \A a \in InvokeArgs :
                       (a[2] # Undefined /\ AegisInvoke(a[1], a[2]))
                          => message.payload = a[2]
      ]_vars

\* C25: only Aegis.expose and Aegis.exposeAll change the allow-list; a bridge
\* call, whether permitted, rejected or failed, and a terminal or progress
\* delivery leave it as it was, and a delivery leaves the id counter as it
\* was.
C25_OnlyExposeChangesAllowList ==
    [][/\ CallMade => UNCHANGED allowedAPIs
       /\ \/ UNCHANGED <<allowedAPIs, callbackId>>
          \/ /\ \A r \in TerminalResponses : ~AegisResolve(r)
             /\ \A r \in ProgressResponses : ~AegisProgress(r)
       /\ \/ UNCHANGED allowedAPIs
          \/ \E apis \in ExposeLists : Expose(apis)
          \/ ExposeAll
      ]_vars

\* With the list ['download', 'copy'] in place a call was rejected by the
\* gate, a permitted call was answered, and the list is still the same.
C25_Witness ==
    /\ allowedAPIs = [defined |-> TRUE, list |-> {s_download, s_copy}]
    /\ callbackId = 1
    /\ pendingCallbacks = EmptyMap
    /\ \E i, j \in 1..Len(calls) :
          /\ GateRejected(calls[i])
          /\ calls[j].id = 1
          /\ calls[j].state = "resolved"

\* C26: a call consumes an id exactly when its action passes the gate, with
\* the transport present or absent; the call that consumes the k-th id gets
\* the id k, and the counter is the number of gate-passing calls made so far.
C26_CounterCountsGatePassingCalls ==
    [][CallMade =>
         /\ isAllowed(TheCall.action) <=> TheCall.id # 0
         /\ TheCall.id # 0 =>
               (callbackId' = callbackId + 1 /\ TheCall.id = callbackId')
         /\ TheCall.id = 0 => UNCHANGED callbackId
         /\ callbackId' =
               Cardinality({i \in 1..Len(calls') : calls'[i].id # 0})
         /\ \A i \in 1..Len(calls') :
               calls'[i].id # 0 =>
                  calls'[i].id =
                     Cardinality({j \in 1..i : calls'[j].id # 0})
      ]_vars

\* C27: the gate is looked at when the call is made and not afterwards. A
\* terminal delivery for a posted call whose action the allow-list no longer
\* covers settles the promise and removes the id; a progress delivery for
\* such a call reaches its callback; a call rejected by the gate stays as it
\* is, and a change of the allow-list posts nothing, allocates nothing and
\* settles nothing.
C27_GateEvaluatedAtCallOnly ==
    [][/\ \A i \in 1..Len(calls) :
             (/\ calls[i].id \in PostedIds
              /\ ~isAllowed(calls[i].action))
                => /\ \A r \in TerminalResponses :
                         (/\ r.callbackId = calls[i].id
                          /\ MapHas(pendingCallbacks, r.callbackId)
                          /\ calls[i].state = "pending"
                          /\ AegisResolve(r))
                            => /\ ~MapHas(pendingCallbacks', r.callbackId)
                               /\ ~MapHas(progressCallbacks', r.callbackId)
                               /\ calls'[i].state =
                                     IF r.success THEN "resolved"
                                     ELSE "rejected"
                   /\ \A r \in ProgressResponses :
                         (/\ r.callbackId = calls[i].id
                          /\ MapHas(progressCallbacks, r.callbackId)
                          /\ AegisProgress(r))
                            => invoked' =
                                  <<[cb |-> progressCallbacks[r.callbackId],
                                     data |-> r.data,
                                     id |-> r.callbackId]>>
       /\ \A i \in 1..Len(calls) :
             GateRejected(calls[i]) => calls'[i] = calls[i]
       /\ allowedAPIs' # allowedAPIs =>
             UNCHANGED <<callbackId, pendingCallbacks, progressCallbacks,
                         posted, calls>>
      ]_vars

\* Aegis.runAsync was posted under the permissive default, the list was then
\* set to ['download', 'copy'], which does not cover 'run.async', a second
\* Aegis.runAsync was rejected by the gate, and a progress delivery for the
\* first call has just reached its callback.
C27_Witness ==
    /\ allowedAPIs = [defined |-> TRUE, list |-> {s_download, s_copy}]
    /\ Len(calls) = 2
    /\ calls[1].action = s_run_async
    /\ calls[1].id = 1
    /\ 1 \in PostedIds
    /\ calls[1].state = "pending"
    /\ GateRejected(calls[2])
    /\ calls[2].action = s_run_async
    /\ invoked # <<>>
    /\ invoked[1].id = 1
    /\ invoked[1].cb = calls[1].onProgress

C29_BackAndForwardAreInverse ==
    [][\A k \in 1..Len(navigating) :
          (/\ navigating[k].op \in {"goBack", "goForward"}
           /\ Len(navigating') = Len(navigating) - 1
           /\ currentPath # navigating[k].path
           /\ currentPath' = navigating[k].path)
             => /\ currentPath' = HistoryAt(history, historyIndex)
                /\ navigating[k].op = "goBack" =>
                      /\ history' = history
                      /\ historyIndex' = historyIndex
                      /\ historyIndex' < Len(history') - 1
                      /\ HistoryAt(history', historyIndex' + 1) = currentPath
      ]_vars

\* C30: when no navigation is under way, historyIndex is -1 if the history is
\* empty, and otherwise it is an index of the history and the entry there is
\* the current path.
C30_HistoryIndexPointsAtCurrentPath ==
    navigating = <<>> =>
       IF history = <<>>
       THEN historyIndex = -1
       ELSE /\ 0 <= historyIndex
            /\ historyIndex < Len(history)
            /\ HistoryAt(history, historyIndex) = currentPath
====
